---- MODULE Spec2Model ----
\* A model of goodreads_scraper.py: the run of main() (profile, the two shelf
\* pagination loops, the summaries and the CSV export) and the pure functions
\* it is built from (entry locator, field extractor, CSV writer).
\*
\* Text is a sequence of characters, so that trimming, searching, number
\* parsing and URL resolution are computed and not assumed.
EXTENDS Integers, Sequences, FiniteSets, TLC

\* ------------------------------------------------------------------ bounds

\* Pages of a shelf whose content varies freely; later pages are FillerPage.
VariedPages == 3
\* Rows on a page of the page-level specification.
MaxRows == 3
\* Star spans in a rating cell of the row-level specification.
MaxStars == 6
\* Records handed to save_to_csv in the export-level specification.
MaxBooks == 2

\* Longest generated publish-date text.
MaxDateLen == 5

\* -------------------------------------------------------- program constants

\* scrape_read_books(max_pages=50), scrape_currently_reading(max_pages=10)
ReadMaxPages == 50
CurrentlyReadingMaxPages == 10

\* --------------------------------------------------------------------- text

\* A character is a one-character string when it is printable ASCII, one of
\* "\t", "\n", "\r", "\f", and otherwise the token "U+XXXX" of its code point
\* (four or more upper-case hexadecimal digits).
HexDigits ==
  <<"0", "1", "2", "3", "4", "5", "6", "7", "8", "9",
    "A", "B", "C", "D", "E", "F">>

RECURSIVE Hex(_)
Hex(n) ==
  IF n < 16 THEN HexDigits[n + 1]
  ELSE Hex(n \div 16) \o HexDigits[(n % 16) + 1]

Token(cp) ==
  "U+" \o (IF cp < 16 THEN "000" ELSE IF cp < 256 THEN "00"
           ELSE IF cp < 4096 THEN "0" ELSE "") \o Hex(cp)

AsciiDigits == <<"0", "1", "2", "3", "4", "5", "6", "7", "8", "9">>

\* The code points of the digit zero of every block of decimal digits
\* (Unicode category Nd) other than ASCII; the nine that follow each are the
\* digits one to nine of the block.
DigitZeros ==
  {1632, 1776, 1984, 2406, 2534, 2662, 2790, 2918, 3046, 3174, 3302, 3430,
   3558, 3664, 3792, 3872, 4160, 4240, 6112, 6160, 6470, 6608, 6784, 6800,
   6992, 7088, 7232, 7248, 42528, 43216, 43264, 43472, 43504, 43600, 44016,
   65296, 66720, 68912, 69734, 69872, 69942, 70096, 70384, 70736, 70864,
   71248, 71360, 71472, 71904, 72016, 72784, 73040, 73120, 92768, 92864,
   93008, 120782, 120792, 120802, 120812, 120822, 123200, 123632, 125264,
   130032}

\* Every decimal digit with its value: what \d matches in a str pattern, and
\* what int() and float() read as a digit.
DigitValues ==
  {<<AsciiDigits[d + 1], d>> : d \in 0..9}
    \cup {<<Token(z + d), d>> : z \in DigitZeros, d \in 0..9}

Digits == {p[1] : p \in DigitValues}

IsDigit(c) == c \in Digits

DigitVal(c) == (CHOOSE p \in DigitValues : p[1] = c)[2]

DigitChar(d) == AsciiDigits[d + 1]

\* The code points of the characters for which str.isspace() holds.
SpaceCodePoints ==
  {9, 10, 11, 12, 13, 28, 29, 30, 31, 32, 133, 160, 5760, 8232, 8233, 8239,
   8287, 12288} \cup 8192..8202

Whitespace ==
  {" ", "\t", "\n", "\r", "\f"} \cup {Token(cp) : cp \in SpaceCodePoints}

IsSpace(c) == c \in Whitespace

\* The text is whitespace from end to end (the empty text included).
IsBlank(s) == \A i \in 1..Len(s) : IsSpace(s[i])

\* The first and the last character of s that is not whitespace.
FirstNonSpace(s) ==
  CHOOSE i \in 1..Len(s) : ~IsSpace(s[i]) /\ \A j \in 1..(i - 1) : IsSpace(s[j])

LastNonSpace(s) ==
  CHOOSE i \in 1..Len(s) :
    ~IsSpace(s[i]) /\ \A j \in (i + 1)..Len(s) : IsSpace(s[j])

\* str.strip(): leading and trailing whitespace characters removed.
LStrip(s) == IF IsBlank(s) THEN <<>> ELSE SubSeq(s, FirstNonSpace(s), Len(s))

RStrip(s) == IF IsBlank(s) THEN <<>> ELSE SubSeq(s, 1, LastNonSpace(s))

Strip(s) == RStrip(LStrip(s))

\* element.get_text(strip=True) of an element holding one text node.
GetText(s) == Strip(s)

\* re.search(pat, s) for a literal pattern: does pat occur in s.
Contains(s, pat) ==
  \E i \in 1..(Len(s) - Len(pat) + 1) : SubSeq(s, i, i + Len(pat) - 1) = pat

\* The number a run of decimal digits denotes.
RECURSIVE DecimalValue(_)
DecimalValue(ds) ==
  IF ds = <<>> THEN 0
  ELSE 10 * DecimalValue(SubSeq(ds, 1, Len(ds) - 1)) + DigitVal(ds[Len(ds)])

\* The exception int() raises.
ValueError == [raised |-> "ValueError"]

\* The most digits int() converts (sys.int_info.default_max_str_digits);
\* leading zeros count.
MaxStrDigits == 4300

\* int(digits) raises ValueError: the run is longer than the limit.
IntRaises(ds) == Len(ds) > MaxStrDigits

\* int(digits) for a non-empty run of decimal digits: the number, or the
\* exception raised.
StrToInt(ds) == IF IntRaises(ds) THEN ValueError ELSE DecimalValue(ds)

\* str(n) for n >= 0.
RECURSIVE IntToStr(_)
IntToStr(n) ==
  IF n < 10 THEN <<DigitChar(n)>>
  ELSE IntToStr(n \div 10) \o <<DigitChar(n % 10)>>

HasDigit(s) == \E i \in 1..Len(s) : IsDigit(s[i])

\* The position of the leftmost digit of s.
FirstDigitAt(s) ==
  CHOOSE i \in 1..Len(s) : IsDigit(s[i]) /\ \A j \in 1..(i - 1) : ~IsDigit(s[j])

\* The position where the run of digits that holds position i ends.
DigitRunEnd(s, i) ==
  CHOOSE j \in i..Len(s) :
    /\ j = Len(s) \/ ~IsDigit(s[j + 1])
    /\ \A k \in i..j : IsDigit(s[k])

\* The maximal run of digits that starts at position i.
DigitRunAt(s, i) == SubSeq(s, i, DigitRunEnd(s, i))

Min(S) == CHOOSE x \in S : \A y \in S : x <= y

\* re.search(r'(\d+)', s).group(1): the leftmost, longest run of digits;
\* <<>> when there is no match.
FirstDigitRun(s) ==
  IF HasDigit(s) THEN DigitRunAt(s, FirstDigitAt(s)) ELSE <<>>

YearPositions(s) ==
  {i \in 1..(Len(s) - 3) : \A k \in 0..3 : IsDigit(s[i + k])}

\* re.search(r'(\d{4})', s).group(1): the leftmost four consecutive digits;
\* <<>> when there is no match.
FirstYear(s) ==
  LET at == YearPositions(s)
  IN  IF at = {} THEN <<>> ELSE [k \in 1..4 |-> s[Min(at) + k - 1]]

\* ------------------------------------------------------------------ floats

IsToken(c) == Len(c) > 1 /\ SubSeq(c, 1, 2) = "U+"

IsAscii(c) == ~IsToken(c) \/ c \in {Token(cp) : cp \in 0..127}

\* What float() does to the characters before it parses: a decimal digit of
\* any script becomes its ASCII digit, a non-ASCII whitespace character a
\* blank, any other non-ASCII character "?".
FloatAscii(s) ==
  [i \in 1..Len(s) |->
     IF IsDigit(s[i]) THEN DigitChar(DigitVal(s[i]))
     ELSE IF IsAscii(s[i]) THEN s[i]
     ELSE IF IsSpace(s[i]) THEN " " ELSE "?"]

\* The ASCII whitespace float() skips at both ends.
FloatSpaces == {" ", "\t", "\n", "\r", "\f", Token(11)}

RECURSIVE FloatLStrip(_)
FloatLStrip(s) ==
  IF s # <<>> /\ Head(s) \in FloatSpaces THEN FloatLStrip(Tail(s)) ELSE s

RECURSIVE FloatRStrip(_)
FloatRStrip(s) ==
  IF s # <<>> /\ s[Len(s)] \in FloatSpaces
  THEN FloatRStrip(SubSeq(s, 1, Len(s) - 1)) ELSE s

FloatBody(s) == FloatRStrip(FloatLStrip(FloatAscii(s)))

Unsigned(t) == IF t # <<>> /\ t[1] \in {"+", "-"} THEN Tail(t) ELSE t

UpperCase ==
  <<"A", "B", "C", "D", "E", "F", "G", "H", "I", "J", "K", "L", "M",
    "N", "O", "P", "Q", "R", "S", "T", "U", "V", "W", "X", "Y", "Z">>

LowerCase ==
  <<"a", "b", "c", "d", "e", "f", "g", "h", "i", "j", "k", "l", "m",
    "n", "o", "p", "q", "r", "s", "t", "u", "v", "w", "x", "y", "z">>

Lower(c) ==
  IF \E k \in 1..26 : UpperCase[k] = c
  THEN LowerCase[CHOOSE k \in 1..26 : UpperCase[k] = c] ELSE c

Folded(t) == [i \in 1..Len(t) |-> Lower(t[i])]

NanWord == <<"n", "a", "n">>

InfWords == {<<"i", "n", "f">>, <<"i", "n", "f", "i", "n", "i", "t", "y">>}

IsAsciiDigit(c) == \E d \in 0..9 : AsciiDigits[d + 1] = c

\* digitpart: digits, with single underscores between two digits.
IsDigitPart(t) ==
  /\ t # <<>>
  /\ \A i \in 1..Len(t) :
       \/ IsAsciiDigit(t[i])
       \/ /\ t[i] = "_"
          /\ 1 < i /\ i < Len(t)
          /\ IsAsciiDigit(t[i - 1]) /\ IsAsciiDigit(t[i + 1])

NoUnderscores(t) == SelectSeq(t, LAMBDA c : c # "_")

ExpMarks(t) == {i \in 1..Len(t) : t[i] \in {"e", "E"}}

Mantissa(t) == IF ExpMarks(t) = {} THEN t ELSE SubSeq(t, 1, Min(ExpMarks(t)) - 1)

Exponent(t) ==
  IF ExpMarks(t) = {} THEN <<>> ELSE SubSeq(t, Min(ExpMarks(t)) + 1, Len(t))

DotPositions(s) == {i \in 1..Len(s) : s[i] = "."}

IntPart(m) ==
  IF DotPositions(m) = {} THEN m ELSE SubSeq(m, 1, Min(DotPositions(m)) - 1)

FracPart(m) ==
  IF DotPositions(m) = {} THEN <<>>
  ELSE SubSeq(m, Min(DotPositions(m)) + 1, Len(m))

\* floatnumber: [digitpart] "." digitpart | digitpart ["."], then an optional
\* exponent ("e" | "E") ["+" | "-"] digitpart.
IsNumber(t) ==
  LET m == Mantissa(t)
  IN  /\ IntPart(m) # <<>> \/ FracPart(m) # <<>>
      /\ IntPart(m) = <<>> \/ IsDigitPart(IntPart(m))
      /\ FracPart(m) = <<>> \/ IsDigitPart(FracPart(m))
      /\ Cardinality(DotPositions(m)) <= 1
      /\ ExpMarks(t) = {} \/ IsDigitPart(Unsigned(Exponent(t)))

\* The text after the sign is one float() reads: nan, inf, infinity in any
\* case, or a floatnumber.
IsFloatWord(t) ==
  Folded(t) = NanWord \/ Folded(t) \in InfWords \/ IsNumber(t)

\* float(s) does not raise ValueError.
IsFloatText(s) == IsFloatWord(Unsigned(FloatBody(s)))

RECURSIVE DropLeadingZeros(_)
DropLeadingZeros(ds) ==
  IF ds # <<>> /\ Head(ds) = "0" THEN DropLeadingZeros(Tail(ds)) ELSE ds

RECURSIVE DropTrailingZeros(_)
DropTrailingZeros(ds) ==
  IF ds # <<>> /\ ds[Len(ds)] = "0"
  THEN DropTrailingZeros(SubSeq(ds, 1, Len(ds) - 1)) ELSE ds

\* A float: nan, an infinity, or the number (-1)^neg * d.ddd * 10^exp of the
\* significant digits d ddd (no zero at either end; none for zero).
Float(kind, neg, digits, exp) ==
  [kind |-> kind, neg |-> neg, digits |-> digits, exp |-> exp]

\* The value of an exponent; one of seven digits or more is past every
\* range that matters.
ExpInt(ds) ==
  LET sig == DropLeadingZeros(ds)
  IN  IF Len(sig) > 6 THEN 1000000 ELSE DecimalValue(sig)

\* ---- natural numbers of any size: their limbs of base 10^4, the least
\* significant first, without zero limbs at the high end; <<>> is zero.
Base == 10000

Max(S) == CHOOSE x \in S : \A y \in S : y <= x

At(a, i) == IF i <= Len(a) THEN a[i] ELSE 0

Norm(a) == SubSeq(a, 1, Max({0} \cup {i \in 1..Len(a) : a[i] # 0}))

\* The limbs of the totals t (t[i] counts Base^(i-1)) once every limb has
\* passed its carry on, with the carry c into the first and the carry out
\* of the last.
RECURSIVE Carried(_, _)
JoinCarried(lo, hi) == [limbs |-> lo.limbs \o hi.limbs, carry |-> hi.carry]

CarriedHigh(lo, high) == JoinCarried(lo, Carried(high, lo.carry))

Carried(t, c) ==
  IF Len(t) = 0 THEN [limbs |-> <<>>, carry |-> c]
  ELSE IF Len(t) = 1
  THEN [limbs |-> <<(t[1] + c) % Base>>, carry |-> (t[1] + c) \div Base]
  ELSE CarriedHigh(Carried(SubSeq(t, 1, Len(t) \div 2), c),
                   SubSeq(t, Len(t) \div 2 + 1, Len(t)))

WithCarry(r) == Norm(r.limbs \o <<r.carry % Base, r.carry \div Base>>)

\* a * k + c, for k up to 2^17
MulSmall(a, k, c) == WithCarry(Carried([i \in 1..Len(a) |-> a[i] * k], c))

Add(a, b) ==
  WithCarry(Carried([i \in 1..Max({Len(a), Len(b)}) |-> At(a, i) + At(b, i)], 0))

\* a - b, for b <= a
Sub(a, b) == Norm(Carried([i \in 1..Len(a) |-> a[i] - At(b, i)], 0).limbs)

CmpAt(a, b, differ) ==
  IF differ = {} THEN 0 ELSE IF a[Max(differ)] < b[Max(differ)] THEN -1 ELSE 1

\* -1, 0, 1 as a < b, a = b, a > b
Cmp(a, b) ==
  IF Len(a) # Len(b) THEN (IF Len(a) < Len(b) THEN -1 ELSE 1)
  ELSE CmpAt(a, b, {i \in 1..Len(a) : a[i] # b[i]})

\* a / 2, rounded down
Halve(a) ==
  Norm([i \in 1..Len(a) |-> (a[i] + Base * (At(a, i + 1) % 2)) \div 2])

Odd(a) == At(a, 1) % 2 = 1

\* a * 10^k
Mul10(a, k) ==
  [i \in 1..(IF a = <<>> THEN 0 ELSE k \div 4) |-> 0] \o MulSmall(a, 10^(k % 4), 0)

\* a * 2^k
RECURSIVE Mul2(_, _)
Mul2(a, k) ==
  IF a = <<>> THEN <<>>
  ELSE IF k <= 17 THEN MulSmall(a, 2^k, 0)
  ELSE Mul2(Mul2(a, k \div 2), k - k \div 2)

One == <<1>>

DigitAt(ds, i) ==
  IF i >= 1 THEN CHOOSE d \in 0..9 : AsciiDigits[d + 1] = ds[i] ELSE 0

\* int(ds) of a text of ASCII digits
Natural(ds) ==
  Norm([j \in 1..((Len(ds) + 3) \div 4) |->
          DigitAt(ds, Len(ds) - 4 * j + 4) + 10 * DigitAt(ds, Len(ds) - 4 * j + 3)
            + 100 * DigitAt(ds, Len(ds) - 4 * j + 2)
            + 1000 * DigitAt(ds, Len(ds) - 4 * j + 1)])

\* ---- the double nearest to a numeral

\* 2^52 and 2^53: a double is m * 2^q with 2^52 <= m < 2^53, or with
\* m < 2^52 and q = -1074 (subnormal); q > 971 stands for an overflow.
TwoTo52 == Mul2(One, 52)

TwoTo53 == Mul2(One, 53)

Double(m, q) == [m |-> m, q |-> q]

\* The state of a division: the remainder r, the divisor t, the binary
\* digits m of the quotient so far and the number of digits left to find.
Dividing(r, t, m, left) == [r |-> r, t |-> t, m |-> m, left |-> left]

\* One binary digit of the quotient r / (t / 2).
DivBit(r, t, m, left) ==
  IF Cmp(r, t) >= 0 THEN Dividing(Sub(r, t), t, MulSmall(m, 2, 1), left - 1)
  ELSE Dividing(r, t, MulSmall(m, 2, 0), left - 1)

DivStep(st) == DivBit(st.r, Halve(st.t), st.m, st.left)

\* n steps of the division, or as many as there are digits left.
RECURSIVE DivSteps(_, _)
DivSteps(n, st) ==
  IF st.left = 0 THEN st
  ELSE IF n = 1 THEN DivStep(st)
  ELSE DivSteps(n - n \div 2, DivSteps(n \div 2, st))

\* Round half to even: cmp compares twice the remainder with the divisor.
HalfEven(cmp, m) == IF cmp > 0 \/ (cmp = 0 /\ Odd(m)) THEN MulSmall(m, 1, 1) ELSE m

Renormal(m, q) == IF m = TwoTo53 THEN Double(TwoTo52, q + 1) ELSE Double(m, q)

RoundedQuotient(st, q) ==
  Renormal(HalfEven(Cmp(MulSmall(st.r, 2, 0), st.t), st.m), q)

\* a / t52 is the numeral over 2^(q0 + 52), at least one and below 2^7: c
\* more halvings bring it below two, and 53 binary digits of the quotient
\* are the integer part of the numeral over 2^(q0 + c).
Divided(a, t52, q0, c) ==
  RoundedQuotient(DivSteps(53, Dividing(a, Mul2(t52, c + 1), <<>>, 53)),
                  q0 + c)

Quotient(a, t52, q0) ==
  Divided(a, t52, q0, Cardinality({j \in 1..6 : Cmp(a, Mul2(t52, j)) >= 0}))

Ratio(d, e, q0) ==
  Quotient(Mul2(IF e >= 0 THEN Mul10(d, e) ELSE d, Max({-q0, 0})),
           Mul2(IF e >= 0 THEN One ELSE Mul10(One, -e), Max({q0, 0}) + 52), q0)

\* A binary exponent q0 with 2^(q0 + 52) <= 10^exp, within six of the
\* greatest, and -1074 at least.
BinaryExponent(exp) == Max({(exp * 3321928) \div 1000000 - 53, -1074})

\* The double nearest to d.ddd * 10^exp, ties to the even one (strtod), for
\* digits ds without a zero in front and -324 <= exp <= 308.
ToDouble(ds, exp) == Ratio(Natural(ds), exp + 1 - Len(ds), BinaryExponent(exp))

\* ---- the shortest numeral that reads as a double (dtoa, mode 0)

\* The gap below the double is half the gap above it.
Narrow(m, q) == m = TwoTo52 /\ q > -1074

\* The double is r / s, the halves of the gaps above and below it mp / s
\* and mm / s.
Gaps(r, s, mp, mm) == [r |-> r, s |-> s, mp |-> mp, mm |-> mm]

Start(m, q) ==
  IF q >= 0
  THEN (IF Narrow(m, q)
        THEN Gaps(Mul2(m, q + 2), <<4>>, Mul2(One, q + 1), Mul2(One, q))
        ELSE Gaps(Mul2(m, q + 1), <<2>>, Mul2(One, q), Mul2(One, q)))
  ELSE (IF Narrow(m, q)
        THEN Gaps(Mul2(m, 2), Mul2(One, 2 - q), <<2>>, One)
        ELSE Gaps(Mul2(m, 1), Mul2(One, 1 - q), One, One))

\* The number of decimal digits of a.
DecimalLen(a) ==
  4 * (Len(a) - 1) + Cardinality({j \in 0..3 : a[Len(a)] >= 10^j})

\* A decimal exponent k0 with 10^k0 <= m * 2^q, within five of the greatest.
DecimalExponent(m, q) == DecimalLen(m) - 2 + (q * 30103) \div 100000

\* The gaps with s multiplied by 10^k.
Times10(g, k) ==
  IF k >= 0 THEN Gaps(g.r, Mul10(g.s, k), g.mp, g.mm)
  ELSE Gaps(Mul10(g.r, -k), g.s, Mul10(g.mp, -k), Mul10(g.mm, -k))

\* The upper end of the interval that reads as the double is at least
\* 10^j * s, and belongs to the interval when m is even.
Reaches(high, s, j, even) ==
  IF even THEN Cmp(high, Mul10(s, j)) >= 0 ELSE Cmp(high, Mul10(s, j)) > 0

\* The state of the generation of digits.
Going(r, mp, mm, digits, done) ==
  [r |-> r, mp |-> mp, mm |-> mm, digits |-> digits, done |-> done]

Stop(digits, d) == Going(<<>>, <<>>, <<>>, Append(digits, d), TRUE)

\* The digit d with the remainder r: j compares r with mm, j1 compares
\* r + mp with s.
Decide(r, d, mp, mm, digits, j, j1, cmp2, even) ==
  IF j1 = 0 /\ even THEN Stop(digits, IF j > 0 THEN d + 1 ELSE d)
  ELSE IF j < 0 \/ (j = 0 /\ even)
  THEN (IF r # <<>> /\ j1 > 0 /\ (cmp2 > 0 \/ (cmp2 = 0 /\ d % 2 = 1))
        THEN Stop(digits, d + 1) ELSE Stop(digits, d))
  ELSE IF j1 > 0 THEN Stop(digits, d + 1)
  ELSE Going(r, mp, mm, Append(digits, d), FALSE)

Emit(r, d, mp, mm, digits, s, even) ==
  Decide(r, d, mp, mm, digits, Cmp(r, mm), Cmp(Add(r, mp), s),
         Cmp(MulSmall(r, 2, 0), s), even)

Chosen(r10, d, mp, mm, digits, s, even) ==
  Emit(Sub(r10, MulSmall(s, d, 0)), d, mp, mm, digits, s, even)

NextDigit(r10, mp, mm, digits, s, even) ==
  Chosen(r10, Cardinality({c \in 1..9 : Cmp(MulSmall(s, c, 0), r10) <= 0}),
         mp, mm, digits, s, even)

GenStep(st, s, even) ==
  NextDigit(MulSmall(st.r, 10, 0), MulSmall(st.mp, 10, 0),
            MulSmall(st.mm, 10, 0), st.digits, s, even)

\* n steps of the generation, or as many as it takes to be done.
RECURSIVE GenSteps(_, _, _, _)
GenSteps(n, st, s, even) ==
  IF st.done THEN st
  ELSE IF n = 1 THEN GenStep(st, s, even)
  ELSE GenSteps(n - n \div 2, GenSteps(n \div 2, st, s, even), s, even)

\* A double has a numeral of 17 digits at most that reads as it.
MaxDigits == 17

Generated(g, k, c, even) ==
  [digits |-> GenSteps(MaxDigits, Going(g.r, g.mp, g.mm, <<>>, FALSE),
                       Mul10(g.s, c), even).digits,
   k |-> k + c]

Scaled(g, k, even) ==
  Generated(g, k,
            Cardinality({j \in 0..6 : Reaches(Add(g.r, g.mp), g.s, j, even)}),
            even)

\* The digits d1 d2 ... and the exponent k of the shortest numeral
\* 0.d1d2... * 10^k that reads as m * 2^q, the nearest to it of that
\* length.
Shortest(m, q) ==
  Scaled(Times10(Start(m, q), DecimalExponent(m, q)), DecimalExponent(m, q),
         ~Odd(m))

FloatOfShortest(neg, short) ==
  Float("num", neg, [i \in 1..Len(short.digits) |-> DigitChar(short.digits[i])],
        short.k - 1)

FloatOfDouble(neg, x) ==
  IF x.m = <<>> THEN Float("num", neg, <<>>, 0)
  ELSE IF x.q > 971 THEN Float("inf", neg, <<>>, 0)
  ELSE FloatOfShortest(neg, Shortest(x.m, x.q))

\* The float of the significant digits sig and decimal exponent exp. A
\* numeral of at most 15 digits within the range of normal doubles is the
\* shortest that reads as its double; any other is rounded to the nearest
\* double and written with that double's shortest numeral.
FloatInRange(neg, sig, exp) ==
  IF sig = <<>> THEN Float("num", neg, <<>>, 0)
  ELSE IF exp > 308 THEN Float("inf", neg, <<>>, 0)
  ELSE IF exp < -324 THEN Float("num", neg, <<>>, 0)
  ELSE IF Len(sig) <= 15 /\ -307 <= exp /\ exp <= 307
  THEN Float("num", neg, sig, exp)
  ELSE FloatOfDouble(neg, ToDouble(sig, exp))

\* The float of the numeral ds * 10^(e10 - Len(ds) + point), ds its digits
\* and point the number of them before the decimal point.
FloatOfDigits(neg, ds, point, e10) ==
  FloatInRange(neg, DropTrailingZeros(DropLeadingZeros(ds)),
               point - 1 - (Len(ds) - Len(DropLeadingZeros(ds))) + e10)

\* The value of the exponent part ex of a numeral (<<>>: none).
Exp10(ex) ==
  IF ex = <<>> THEN 0
  ELSE (IF ex[1] = "-" THEN -1 ELSE 1) * ExpInt(NoUnderscores(Unsigned(ex)))

\* The float of the numeral with integer part ip, fraction fp and exponent
\* part ex.
FloatOfParts(neg, ip, fp, ex) ==
  FloatOfDigits(neg, ip \o fp, Len(ip), Exp10(ex))

\* The float of the text t that follows the sign.
FloatOfWord(neg, t) ==
  IF Folded(t) = NanWord THEN Float("nan", FALSE, <<>>, 0)
  ELSE IF Folded(t) \in InfWords THEN Float("inf", neg, <<>>, 0)
  ELSE FloatOfParts(neg, NoUnderscores(IntPart(Mantissa(t))),
                    NoUnderscores(FracPart(Mantissa(t))), Exponent(t))

FloatOfBody(body) ==
  FloatOfWord(body # <<>> /\ body[1] = "-", Unsigned(body))

\* float(s) for a text that IsFloatText accepts.
ParseFloat(s) == FloatOfBody(FloatBody(s))

Zeros(n) == [i \in 1..n |-> "0"]

\* repr(x), which is str(x) and what csv writes for a float: "nan", "inf",
\* positional notation when 1e-4 <= |x| < 1e16, else d.ddde+XX with an
\* exponent of two digits at least.
FloatToStr(x) ==
  LET sign == IF x.neg THEN <<"-">> ELSE <<>>
      n == Len(x.digits)
      e == IF x.exp < 0 THEN -x.exp ELSE x.exp
  IN  IF x.kind = "nan" THEN NanWord
      ELSE IF x.kind = "inf" THEN sign \o <<"i", "n", "f">>
      ELSE IF x.digits = <<>> THEN sign \o <<"0", ".", "0">>
      ELSE IF x.exp >= 16 \/ x.exp < -4
      THEN sign \o <<x.digits[1]>>
             \o (IF n > 1 THEN <<".">> \o SubSeq(x.digits, 2, n) ELSE <<>>)
             \o <<"e", IF x.exp < 0 THEN "-" ELSE "+">>
             \o (IF e < 10 THEN <<"0">> ELSE <<>>) \o IntToStr(e)
      ELSE IF x.exp < 0
      THEN sign \o <<"0", ".">> \o Zeros(-x.exp - 1) \o x.digits
      ELSE IF n <= x.exp + 1
      THEN sign \o x.digits \o Zeros(x.exp + 1 - n) \o <<".", "0">>
      ELSE sign \o SubSeq(x.digits, 1, x.exp + 1) \o <<".">>
             \o SubSeq(x.digits, x.exp + 2, n)

NoneText == <<"N", "o", "n", "e">>

\* ------------------------------------------------------------ parsed markup

\* A candidate element of a parsed page, as far as the scraper looks at it:
\*   tag         "tr" or "div"
\*   classes     its class names
\*   other_link  it holds some other <a href=".../book/show/..."> (a cover)
\*   title, author                        [td, a, text, href]
\*   isbn, date_pub, avg_rating, num_pages  [td, value, text]
\*   rating                               [td, value, stars]
\* td: the td.field.<name> cell exists; a: the cell holds a link;
\* value: the cell holds a div.value; stars: the span.staticStar elements of
\* the value div, TRUE for one that carries the class p10.

\* self.base_url
base_url ==
  <<"h","t","t","p","s",":","/","/","w","w","w",".",
    "g","o","o","d","r","e","a","d","s",".","c","o","m">>

BookShowPath == <<"/","b","o","o","k","/","s","h","o","w","/">>

\* --------------------------------------------------------------- urljoin

Https == <<"h", "t", "t", "p", "s">>

\* The network location of self.base_url; its path, query and fragment are
\* empty.
base_netloc ==
  <<"w","w","w",".","g","o","o","d","r","e","a","d","s",".","c","o","m">>

\* s.split(c)
RECURSIVE SplitAt(_, _)
SplitAt(s, c) ==
  LET at == {i \in 1..Len(s) : s[i] = c}
  IN  IF at = {} THEN <<s>>
      ELSE <<SubSeq(s, 1, Min(at) - 1)>>
             \o SplitAt(SubSeq(s, Min(at) + 1, Len(s)), c)

\* c.join(parts)
RECURSIVE JoinWith(_, _)
JoinWith(parts, c) ==
  IF parts = <<>> THEN <<>>
  ELSE IF Len(parts) = 1 THEN parts[1]
  ELSE parts[1] \o <<c>> \o JoinWith(Tail(parts), c)

\* The first position of s that holds a character of S; Len(s) + 1 when
\* there is none.
FirstOf(s, S) ==
  LET at == {i \in 1..Len(s) : s[i] \in S}
  IN  IF at = {} THEN Len(s) + 1 ELSE Min(at)

\* c in s
HasChar(s, c) == \E i \in 1..Len(s) : s[i] = c

\* s.split(c, 1): what stands before the first c, all of s when there is
\* none, and what stands after it.
BeforeFirst(s, c) == SubSeq(s, 1, FirstOf(s, {c}) - 1)

AfterFirst(s, c) == SubSeq(s, FirstOf(s, {c}) + 1, Len(s))

\* s.rfind(c) + 1: the last position of s that holds c, 0 when none does.
LastOf(s, c) ==
  IF HasChar(s, c)
  THEN CHOOSE i \in 1..Len(s) : s[i] = c /\ \A j \in (i + 1)..Len(s) : s[j] # c
  ELSE 0

Last(s) == s[Len(s)]

Range(s) == {s[i] : i \in 1..Len(s)}

\* urlsplit: the characters stripped from the left of a URL, and those
\* removed from it everywhere.
C0ControlOrSpace ==
  {" ", "\t", "\n", "\r", "\f"} \cup {Token(cp) : cp \in 0..32}

UnsafeUrlChars == {"\t", "\r", "\n", Token(9), Token(13), Token(10)}

RECURSIVE UrlLStrip(_)
UrlLStrip(s) ==
  IF s # <<>> /\ Head(s) \in C0ControlOrSpace THEN UrlLStrip(Tail(s)) ELSE s

UrlCleaned(url) == SelectSeq(UrlLStrip(url), LAMBDA c : c \notin UnsafeUrlChars)

Letters == {LowerCase[k] : k \in 1..26} \cup {UpperCase[k] : k \in 1..26}

SchemeChars == Letters \cup {AsciiDigits[d + 1] : d \in 0..9} \cup {"+", "-", "."}

\* urlsplit: the URL starts with a scheme and a colon.
HasScheme(u) ==
  LET i == FirstOf(u, {":"})
  IN  /\ 1 < i /\ i <= Len(u)
      /\ u[1] \in Letters
      /\ \A k \in 1..(i - 1) : u[k] \in SchemeChars

HexChars ==
  {AsciiDigits[d + 1] : d \in 0..9}
    \cup {"a", "b", "c", "d", "e", "f", "A", "B", "C", "D", "E", "F"}

\* ipaddress: a decimal octet of an IPv4 address.
IsOctet(o) ==
  /\ o # <<>>
  /\ \A i \in 1..Len(o) : IsAsciiDigit(o[i])
  /\ Len(o) <= 3
  /\ o = <<"0">> \/ o[1] # "0"
  /\ DecimalValue(o) <= 255

IsIPv4(t) ==
  /\ t # <<>>
  /\ Len(SplitAt(t, ".")) = 4
  /\ \A k \in 1..4 : IsOctet(SplitAt(t, ".")[k])

\* ipaddress: a group of an IPv6 address.
IsHextet(h) ==
  h # <<>> /\ Len(h) <= 4 /\ \A i \in 1..Len(h) : h[i] \in HexChars

\* The groups of an address whose "::" stands at position skip of parts:
\* hi groups before it and lo after it.
IsIPv6Skipped(parts, n, hi, lo) ==
  /\ parts[1] = <<>> => hi = 0
  /\ parts[n] = <<>> => lo = 0
  /\ hi + lo <= 7
  /\ \A k \in 1..hi : IsHextet(parts[k])
  /\ \A k \in (n - lo + 1)..n : IsHextet(parts[k])

\* The groups between the colons of an address, an IPv4 tail counted as
\* two groups; gaps holds the positions of the empty inner groups.
IsIPv6Parts(parts, n, gaps) ==
  /\ n <= 9
  /\ Cardinality(gaps) <= 1
  /\ IF gaps # {}
     THEN \E skip \in gaps :
            IsIPv6Skipped(parts, n,
                          IF parts[1] = <<>> THEN skip - 2 ELSE skip - 1,
                          IF parts[n] = <<>> THEN n - skip - 1 ELSE n - skip)
     ELSE n = 8 /\ \A k \in 1..n : IsHextet(parts[k])

IsIPv6Split(parts) ==
  IsIPv6Parts(parts, Len(parts),
              {i \in 2..(Len(parts) - 1) : parts[i] = <<>>})

\* The text between the colons of an address: the last may be an IPv4
\* address.
IsIPv6Colons(parts0, tail4) ==
  /\ Len(parts0) >= 3
  /\ tail4 => IsIPv4(parts0[Len(parts0)])
  /\ IsIPv6Split(IF tail4
                 THEN SubSeq(parts0, 1, Len(parts0) - 1) \o <<<<"0">>, <<"0">>>>
                 ELSE parts0)

\* IPv6Address._ip_int_from_string accepts the address.
IsIPv6Groups(addr) ==
  /\ addr # <<>>
  /\ IsIPv6Colons(SplitAt(addr, ":"), "." \in Range(Last(SplitAt(addr, ":"))))

\* IPv6Address(t): the address, with an optional %scope.
IsIPv6(t) ==
  /\ HasChar(t, "%") =>
       AfterFirst(t, "%") # <<>> /\ ~HasChar(AfterFirst(t, "%"), "%")
  /\ IsIPv6Groups(BeforeFirst(t, "%"))

\* re.match(r"\Av[a-fA-F0-9]+\..+\Z", t)
IsIPvFuture(t) ==
  LET dot == FirstOf(t, {"."})
  IN  /\ t # <<>> /\ t[1] = "v"
      /\ dot > 2 /\ dot < Len(t)
      /\ \A k \in 2..(dot - 1) : t[k] \in HexChars

\* _check_bracketed_host raises on what stands between the brackets.
BracketedHostRaises(t) ==
  IF t # <<>> /\ t[1] = "v" THEN ~IsIPvFuture(t) ELSE ~IsIPv6(t)

\* The characters whose NFKC form holds one of / ? # @ :
NfkcUnsafe ==
  {Token(cp) : cp \in {8263, 8264, 8265, 8448, 8449, 8453, 8454, 10868,
                       65043, 65046, 65109, 65110, 65119, 65131, 65283,
                       65295, 65306, 65311, 65312}}

\* urlsplit: the scheme of the cleaned URL u, https when it names none, and
\* what follows the scheme.
SchemeOf(u) ==
  IF HasScheme(u) THEN Folded(BeforeFirst(u, ":")) ELSE Https

AfterScheme(u) == IF HasScheme(u) THEN AfterFirst(u, ":") ELSE u

\* urlsplit: rest[:2] == '//'
HasNetloc(rest) == Len(rest) >= 2 /\ rest[1] = "/" /\ rest[2] = "/"

\* _splitnetloc(rest, 2): the network location ends before the first of
\* / ? # after the two slashes.
NetlocEnd(rest) == 2 + FirstOf(SubSeq(rest, 3, Len(rest)), {"/", "?", "#"})

NetlocOf(rest) ==
  IF HasNetloc(rest) THEN SubSeq(rest, 3, NetlocEnd(rest) - 1) ELSE <<>>

AfterNetloc(rest) ==
  IF HasNetloc(rest) THEN SubSeq(rest, NetlocEnd(rest), Len(rest)) ELSE rest

\* _splitparams: the position of the first ";" after the last "/" of the
\* path; Len(full) + 1 when there is none.
ParamsAt(full) ==
  LastOf(full, "/") + FirstOf(SubSeq(full, LastOf(full, "/") + 1, Len(full)), {";"})

\* urlparse: the six components. For a scheme other than https the path is
\* left with its parameters, which urljoin never looks at.
SplitParams(scheme, netloc, full, query, fragment) ==
  [scheme |-> scheme, netloc |-> netloc,
   path |-> IF scheme = Https THEN SubSeq(full, 1, ParamsAt(full) - 1) ELSE full,
   params |-> IF scheme = Https THEN SubSeq(full, ParamsAt(full) + 1, Len(full))
              ELSE <<>>,
   query |-> query, fragment |-> fragment]

\* urlsplit: the fragment after the first "#", then the query after the
\* first "?" of what stands before it.
SplitTail(scheme, netloc, tail) ==
  SplitParams(scheme, netloc, BeforeFirst(BeforeFirst(tail, "#"), "?"),
              AfterFirst(BeforeFirst(tail, "#"), "?"), AfterFirst(tail, "#"))

SplitRest(scheme, rest) == SplitTail(scheme, NetlocOf(rest), AfterNetloc(rest))

UrlSplit(u) == SplitRest(SchemeOf(u), AfterScheme(u))

\* urlparse(url, 'https')
UrlParse(url) == UrlSplit(UrlCleaned(url))

\* urlsplit raises ValueError on the network location: a bracket without
\* its partner, a bracketed host that is no IPv6 or IPvFuture address, or a
\* network location that NFKC normalization would change into one with a
\* delimiter in it.
NetlocRaises(netloc) ==
  \/ HasChar(netloc, "[") # HasChar(netloc, "]")
  \/ /\ HasChar(netloc, "[") /\ HasChar(netloc, "]")
     /\ BracketedHostRaises(BeforeFirst(AfterFirst(netloc, "["), "]"))
  \/ \E i \in 1..Len(netloc) : netloc[i] \in NfkcUnsafe

UrlParseRaises(url) == NetlocRaises(UrlParse(url).netloc)

\* urljoin(self.base_url, href) raises.
UrlJoinRaises(href) == href # <<>> /\ UrlParseRaises(href)

\* urljoin: the segments with "." and ".." resolved.
RECURSIVE ResolveDots(_, _)
ResolveDots(segments, resolved) ==
  IF segments = <<>> THEN resolved
  ELSE IF Head(segments) = <<".", ".">>
  THEN ResolveDots(Tail(segments),
                   IF resolved = <<>> THEN <<>>
                   ELSE SubSeq(resolved, 1, Len(resolved) - 1))
  ELSE IF Head(segments) = <<".">> THEN ResolveDots(Tail(segments), resolved)
  ELSE ResolveDots(Tail(segments), Append(resolved, Head(segments)))

\* urljoin: the segments of a relative path after the empty path of
\* base_url, the empty ones between the first and the last dropped.
Filtered(joined) ==
  <<joined[1]>>
    \o SelectSeq(SubSeq(joined, 2, Len(joined) - 1), LAMBDA seg : seg # <<>>)
    \o <<joined[Len(joined)]>>

Segments(path) ==
  IF path # <<>> /\ path[1] = "/" THEN SplitAt(path, "/")
  ELSE Filtered(<<<<>>>> \o SplitAt(path, "/"))

\* urljoin: a last segment "." or ".." leaves a trailing slash.
Resolved(segments) ==
  ResolveDots(segments, <<>>)
    \o (IF Last(segments) \in {<<".">>, <<".", ".">>} THEN <<<<>>>> ELSE <<>>)

\* '/'.join(resolved_path) or '/'
OrSlash(text) == IF text = <<>> THEN <<"/">> ELSE text

\* urljoin: the path of a reference without a network location, resolved
\* against the empty path of base_url.
ResolvedPath(path) == OrSlash(JoinWith(Resolved(Segments(path)), "/"))

\* urlunsplit for the scheme https and a network location.
UrlUnsplit(netloc, url, query, fragment) ==
  Https \o <<":", "/", "/">> \o netloc
    \o (IF url # <<>> /\ url[1] # "/" THEN <<"/">> ELSE <<>>) \o url
    \o (IF query # <<>> THEN <<"?">> \o query ELSE <<>>)
    \o (IF fragment # <<>> THEN <<"#">> \o fragment ELSE <<>>)

\* urlunparse for the scheme https and a network location.
UrlUnparse(netloc, path, params, query, fragment) ==
  UrlUnsplit(netloc, IF params # <<>> THEN path \o <<";">> \o params ELSE path,
             query, fragment)

\* urljoin: the reference with the components p joined to base_url.
UrlJoinParsed(href, p) ==
  IF p.scheme # Https THEN href
  ELSE IF p.netloc # <<>>
  THEN UrlUnparse(p.netloc, p.path, p.params, p.query, p.fragment)
  ELSE IF p.path = <<>> /\ p.params = <<>>
  THEN UrlUnparse(base_netloc, <<>>, <<>>, p.query, p.fragment)
  ELSE UrlUnparse(base_netloc, ResolvedPath(p.path), p.params, p.query,
                  p.fragment)

\* urljoin(self.base_url, href), where it does not raise.
UrlJoin(href) ==
  IF href = <<>> THEN base_url ELSE UrlJoinParsed(href, UrlParse(href))

\* ------------------------------------------------------------------ markup

\* re.compile(r'book|item|entry').search(name) on a class name.
IsLooseClass(name) ==
  \E word \in {"book", "item", "entry"} :
    \E i \in 1..(Len(name) - Len(word) + 1) :
      SubSeq(name, i, i + Len(word) - 1) = word

\* row.find('a', href=re.compile(r'/book/show/'))
HasBookLink(e) ==
  \/ e.other_link
  \/ e.title.td /\ e.title.a /\ Contains(e.title.href, BookShowPath)
  \/ e.author.td /\ e.author.a /\ Contains(e.author.href, BookShowPath)

\* ----------------------------------------------------------- entry locator

IsBookalikeRow(e) == e.tag = "tr" /\ "bookalike" \in e.classes

IsBookLinkRow(e) == e.tag = "tr" /\ HasBookLink(e)

IsBookDiv(e) ==
  /\ e.tag = "div"
  /\ \E name \in e.classes : IsLooseClass(name)
  /\ HasBookLink(e)

\* Method 1: soup.find_all('tr', class_='bookalike')
Strategy1(soup) == SelectSeq(soup.elems, IsBookalikeRow)

\* Method 2: the rows of soup.find_all('tr') that hold a book link
Strategy2(soup) == SelectSeq(soup.elems, IsBookLinkRow)

\* Method 3: the divs of class book|item|entry that hold a book link
Strategy3(soup) == SelectSeq(soup.elems, IsBookDiv)

\* Faulty variant: every method runs and adds to the candidates.
LocateEntriesAllMethods(soup) ==
  [entries |-> Strategy1(soup) \o Strategy2(soup) \o Strategy3(soup),
   ran |-> {1, 2, 3}]

\* The candidates of a page and the methods that were run to find them.
LocateEntries(soup) ==
  LET m1 == Strategy1(soup)
  IN  IF m1 # <<>> THEN [entries |-> m1, ran |-> {1}]
      ELSE LET m2 == Strategy2(soup)
           IN  IF m2 # <<>> THEN [entries |-> m2, ran |-> {1, 2}]
               ELSE [entries |-> Strategy3(soup), ran |-> {1, 2, 3}]

\* ---------------------------------------------------------- field extractor

\* Python's None.
None == [none |-> TRUE]

EmptyDict == <<>>

\* book.get(field, default)
Get(book, field, default) ==
  IF field \in DOMAIN book THEN book[field] ELSE default

\* The text of a value cell when it counts: non-empty and not "None".
Counted(text) == IF text # <<>> /\ text # NoneText THEN text ELSE <<>>

ValueText(cell) ==
  IF cell.td /\ cell.value THEN Counted(GetText(cell.text)) ELSE <<>>

\* int(pages_match.group(1)) raises on this row.
PagesRaises(e) == IntRaises(FirstDigitRun(ValueText(e.num_pages)))

\* The extraction of this row raises: urljoin on the title or author href,
\* or int() on the digits of the page count.
ExtractRaises(e) ==
  \/ e.title.td /\ e.title.a /\ UrlJoinRaises(e.title.href)
  \/ e.author.td /\ e.author.a /\ UrlJoinRaises(e.author.href)
  \/ PagesRaises(e)

TitleFields(e) ==
  IF e.title.td /\ e.title.a
  THEN [title |-> GetText(e.title.text), book_url |-> UrlJoin(e.title.href)]
  ELSE EmptyDict

AuthorFields(e) ==
  IF e.author.td /\ e.author.a
  THEN [author |-> GetText(e.author.text), author_url |-> UrlJoin(e.author.href)]
  ELSE EmptyDict

\* book_info[field] = text, for a text that counts.
TextField(field, text) ==
  IF text # <<>> THEN [f \in {field} |-> text] ELSE EmptyDict

IsbnFields(e) == TextField("isbn", ValueText(e.isbn))

\* Faulty variant: the text is kept as it is, a year in it or not.
PublishDateFieldsRawText(e) == TextField("publish_date", ValueText(e.date_pub))

\* year_match.group() if year_match else date_text
YearOr(year, date_text) == IF year # <<>> THEN year ELSE date_text

PublishDate(date_text) ==
  TextField("publish_date", YearOr(FirstYear(date_text), date_text))

PublishDateFields(e) == PublishDate(ValueText(e.date_pub))

\* sum(1 for star in static_stars if 'p10' in star.get('class', []))
FilledStars(stars) == Cardinality({i \in 1..Len(stars) : stars[i]})

\* Faulty variant: every star span counts, filled or not.
RatingFieldsAllStars(e) ==
  IF e.rating.td /\ e.rating.value /\ e.rating.stars # <<>>
  THEN [rating |-> Len(e.rating.stars)] ELSE EmptyDict

RatingFields(e) ==
  LET filled_stars == FilledStars(e.rating.stars)
  IN  IF e.rating.td /\ e.rating.value /\ e.rating.stars # <<>>
         /\ filled_stars > 0
      THEN [rating |-> filled_stars] ELSE EmptyDict

\* float(avg_rating_text), unless it raises ValueError.
AvgRating(text) ==
  IF text # <<>> /\ IsFloatText(text)
  THEN [avg_rating |-> ParseFloat(text)] ELSE EmptyDict

AvgRatingFields(e) == AvgRating(ValueText(e.avg_rating))

\* int(pages_match.group(1)) if pages_match: the field, nothing when there
\* is no match, or the exception int() raises.
Pages(run) ==
  IF run = <<>> THEN EmptyDict
  ELSE IF IntRaises(run) THEN ValueError
  ELSE [pages |-> StrToInt(run)]

PagesFields(e) == Pages(FirstDigitRun(ValueText(e.num_pages)))

\* book_info as it stands at the return statement.
BookInfo(e) ==
  TitleFields(e) @@ AuthorFields(e) @@ IsbnFields(e) @@ PublishDateFields(e)
    @@ RatingFields(e) @@ AvgRatingFields(e) @@ PagesFields(e)

\* Faulty variant: the record is returned whether or not it has a title.
ExtractBookInfoNoTitleCheck(e) ==
  IF ExtractRaises(e) THEN None ELSE BookInfo(e)

\* _extract_book_info: the record, or None when the row raises or has no
\* non-empty title.
\* return book_info if book_info.get('title') else None
Titled(book_info) ==
  IF Get(book_info, "title", <<>>) # <<>> THEN book_info ELSE None

ExtractBookInfo(e) == IF ExtractRaises(e) THEN None ELSE Titled(BookInfo(e))

\* The value of the shelf column.
ShelfName(shelf) ==
  IF shelf = "read" THEN <<"r","e","a","d">>
  ELSE <<"c","u","r","r","e","n","t","l","y","-","r","e","a","d","i","n","g">>

\* if book_info: book_info['shelf'] = shelf; page_books.append(book_info)
Tagged(book_info, shelf) ==
  IF book_info # None THEN <<[shelf |-> ShelfName(shelf)] @@ book_info>>
  ELSE <<>>

\* Faulty variant: the first row that yields no record ends the page.
RECURSIVE ExtractEntriesAbortOnFailure(_, _)
ExtractEntriesAbortOnFailure(entries, shelf) ==
  IF entries = <<>> \/ Tagged(ExtractBookInfo(Head(entries)), shelf) = <<>>
  THEN <<>>
  ELSE Tagged(ExtractBookInfo(Head(entries)), shelf)
         \o ExtractEntriesAbortOnFailure(Tail(entries), shelf)

\* page_books: the loop over book_entries, each record tagged with the shelf.
RECURSIVE ExtractEntries(_, _)
ExtractEntries(entries, shelf) ==
  IF entries = <<>> THEN <<>>
  ELSE Tagged(ExtractBookInfo(Head(entries)), shelf)
         \o ExtractEntries(Tail(entries), shelf)

\* ------------------------------------------------------------------ export

\* fieldnames of save_to_csv
fieldnames ==
  <<"title", "author", "publish_date", "isbn", "rating", "avg_rating",
    "pages", "book_url", "author_url", "shelf">>

\* A field name as the text written to the file.
FieldText(field) ==
  CASE field = "title" -> <<"t","i","t","l","e">>
    [] field = "author" -> <<"a","u","t","h","o","r">>
    [] field = "publish_date" -> <<"p","u","b","l","i","s","h","_","d","a","t","e">>
    [] field = "isbn" -> <<"i","s","b","n">>
    [] field = "rating" -> <<"r","a","t","i","n","g">>
    [] field = "avg_rating" -> <<"a","v","g","_","r","a","t","i","n","g">>
    [] field = "pages" -> <<"p","a","g","e","s">>
    [] field = "book_url" -> <<"b","o","o","k","_","u","r","l">>
    [] field = "author_url" -> <<"a","u","t","h","o","r","_","u","r","l">>
    [] field = "shelf" -> <<"s","h","e","l","f">>

\* writer.writeheader(): the field names, in order.
HeaderRow == [j \in 1..Len(fieldnames) |-> FieldText(fieldnames[j])]

\* What csv.writer writes for a value: str(value).
CellText(field, value) ==
  IF field \in {"rating", "pages"} THEN IntToStr(value)
  ELSE IF field = "avg_rating" THEN FloatToStr(value)
  ELSE value

\* row = {field: book.get(field, '') for field in fieldnames}, as written.
CsvRow(book) ==
  [j \in 1..Len(fieldnames) |->
     IF fieldnames[j] \in DOMAIN book
     THEN CellText(fieldnames[j], book[fieldnames[j]]) ELSE <<>>]

\* csv.writer (excel dialect): a field that holds the delimiter, the quote
\* character or a character of the line terminator is written between
\* quotes, its own quotes doubled.
NeedsQuotes(text) ==
  \E i \in 1..Len(text) : text[i] \in {",", "\"", "\r", "\n"}

RECURSIVE DoubledQuotes(_)
DoubledQuotes(text) ==
  IF text = <<>> THEN <<>>
  ELSE (IF Head(text) = "\"" THEN <<"\"", "\"">> ELSE <<Head(text)>>)
         \o DoubledQuotes(Tail(text))

CsvField(text) ==
  IF NeedsQuotes(text) THEN <<"\"">> \o DoubledQuotes(text) \o <<"\"">>
  ELSE text

\* The line of a row as it goes to the file (newline='').
CsvLine(row) ==
  JoinWith([j \in 1..Len(row) |-> CsvField(row[j])], ",") \o <<"\r", "\n">>

RECURSIVE CsvText(_)
CsvText(rows) ==
  IF rows = <<>> THEN <<>> ELSE CsvLine(Head(rows)) \o CsvText(Tail(rows))

\* encoding='utf-8': the number of bytes of a character.
Utf8Len(c) ==
  IF ~IsToken(c) THEN 1
  ELSE IF Len(c) > 6 THEN 4
  ELSE IF SubSeq(c, 3, 4) = "00"
          /\ SubSeq(c, 5, 5) \in {"0", "1", "2", "3", "4", "5", "6", "7"}
  THEN 1
  ELSE IF SubSeq(c, 3, 3) = "0"
          /\ SubSeq(c, 4, 4) \in {"0", "1", "2", "3", "4", "5", "6", "7"}
  THEN 2
  ELSE 3

\* The number of bytes of a text.
Utf8Size(text) ==
  Len(text) + Cardinality({i \in 1..Len(text) : Utf8Len(text[i]) > 1})
    + Cardinality({i \in 1..Len(text) : Utf8Len(text[i]) > 2})
    + Cardinality({i \in 1..Len(text) : Utf8Len(text[i]) > 3})

\* The k-th byte of a character of several bytes.
Utf8Byte(c, k) == c \o "/" \o AsciiDigits[k + 1]

\* The first n bytes of a line, the first j characters of it in full.
CutAfter(line, n, j) ==
  SubSeq(line, 1, j)
    \o [k \in 1..(n - Utf8Size(SubSeq(line, 1, j))) |-> Utf8Byte(line[j + 1], k)]

Utf8Cut(line, n) ==
  CutAfter(line, n, Max({j \in 0..Len(line) : Utf8Size(SubSeq(line, 1, j)) <= n}))

\* The export file: absent, or the rows whose lines it holds in full and,
\* when it ends in the middle of a line, the bytes of that line it holds
\* (a character for each that is whole).
NoFile == [exists |-> FALSE, rows |-> <<>>, cut |-> <<>>]

File(rows, cut) == [exists |-> TRUE, rows |-> rows, cut |-> cut]

\* The file with the row before what the rest of the rows left in it.
After(row, rest) == File(<<row>> \o rest.rows, rest.cut)

\* The file that holds the first n bytes of the lines of rows.
RECURSIVE Written(_, _)
Written(rows, n) ==
  IF rows = <<>> THEN File(<<>>, <<>>)
  ELSE IF Utf8Size(CsvLine(Head(rows))) <= n
  THEN After(Head(rows), Written(Tail(rows), n - Utf8Size(CsvLine(Head(rows)))))
  ELSE File(<<>>, Utf8Cut(CsvLine(Head(rows)), n))

\* Outcomes of the filesystem for one export: the write succeeds, open()
\* fails (bytes = -1), or an error is raised when `bytes` bytes of the text
\* have reached the file.
IoOk == [ok |-> TRUE, bytes |-> 0]

\* No export was attempted.
IoNone == [ok |-> TRUE, bytes |-> -2]

IoFail(n) == [ok |-> FALSE, bytes |-> n]

\* The rows save_to_csv writes for the records: the header, then a row each.
CsvRows(books) == <<HeaderRow>> \o [i \in 1..Len(books) |-> CsvRow(books[i])]

IoOutcomes(books) ==
  {IoOk} \cup {IoFail(n) : n \in -1..Utf8Size(CsvText(CsvRows(books)))}

\* Faulty variant: the header is written even when there is nothing to save.
SaveToCsvAlwaysWrites(books, io) ==
  [file |-> File(CsvRows(books), <<>>), out |-> "saved", raised |-> FALSE]

\* Faulty variant: the write is not guarded; a failure leaves save_to_csv as an
\* exception.
SaveToCsvUnguarded(books, io) ==
  IF books = <<>> THEN [file |-> NoFile, out |-> "no_books_to_save", raised |-> FALSE]
  ELSE IF io.ok
  THEN [file |-> File(CsvRows(books), <<>>), out |-> "saved", raised |-> FALSE]
  ELSE [file |-> NoFile, out |-> "", raised |-> TRUE]

\* save_to_csv(books, filename) under filesystem outcome io: the file it
\* leaves, the line it prints, and whether an exception leaves it.
SaveToCsv(books, io) ==
  IF books = <<>>
  THEN [file |-> NoFile, out |-> "no_books_to_save", raised |-> FALSE]
  ELSE IF io.ok
  THEN [file |-> File(CsvRows(books), <<>>), out |-> "saved", raised |-> FALSE]
  ELSE IF io.bytes = -1
  THEN [file |-> NoFile, out |-> "error_csv", raised |-> FALSE]
  ELSE [file |-> Written(CsvRows(books), io.bytes), out |-> "error_csv",
        raised |-> FALSE]

\* ----------------------------------------------------------- pagination loop

Shelves == {"read", "currently-reading"}

\* max_pages as main() calls the two scrapers.
MaxPagesOf(shelf) ==
  IF shelf = "read" THEN ReadMaxPages ELSE CurrentlyReadingMaxPages

\* What a pass saw of its page when it never came to locate entries (the
\* fetch failed, or the pass was left before the locator ran).
NotLocated(fetch) ==
  [fetched |-> fetch, located |-> FALSE, next_page |-> FALSE,
   n_entries |-> 0, n_books |-> 0]

\* Faulty variant: a page without records does not end the loop.
LoopBodyIgnoresEmptyPage(shelf, page, fetch, soup, dump) ==
  LET page_books == ExtractEntries(LocateEntries(soup).entries, shelf)
      seen == [fetched |-> fetch, located |-> TRUE, next_page |-> soup.next_page,
               n_entries |-> Len(LocateEntries(soup).entries),
               n_books |-> Len(page_books)]
  IN  IF fetch = "fail"
      THEN [exit |-> "transport", page_books |-> <<>>, dumped |-> FALSE,
            seen |-> NotLocated(fetch)]
      ELSE IF page = 1 /\ dump # "ok"
      THEN [exit |-> "crash", page_books |-> <<>>,
            dumped |-> dump = "fail_write", seen |-> NotLocated(fetch)]
      ELSE IF ~soup.next_page
      THEN [exit |-> "no_next", page_books |-> page_books, dumped |-> page = 1,
            seen |-> seen]
      ELSE [exit |-> "", page_books |-> page_books, dumped |-> page = 1,
            seen |-> seen]

\* Faulty variant: the request is not guarded; a transport failure leaves the loop
\* as an exception.
LoopBodyUnguarded(shelf, page, fetch, soup, dump) ==
  LET page_books == ExtractEntries(LocateEntries(soup).entries, shelf)
      seen == [fetched |-> fetch, located |-> TRUE, next_page |-> soup.next_page,
               n_entries |-> Len(LocateEntries(soup).entries),
               n_books |-> Len(page_books)]
  IN  IF fetch = "fail" \/ (page = 1 /\ dump # "ok")
      THEN [exit |-> "crash", page_books |-> <<>>,
            dumped |-> fetch # "fail" /\ dump = "fail_write",
            seen |-> NotLocated(fetch)]
      ELSE IF page_books = <<>>
      THEN [exit |-> "no_records", page_books |-> <<>>, dumped |-> page = 1,
            seen |-> seen]
      ELSE IF ~soup.next_page
      THEN [exit |-> "no_next", page_books |-> page_books, dumped |-> page = 1,
            seen |-> seen]
      ELSE [exit |-> "", page_books |-> page_books, dumped |-> page = 1,
            seen |-> seen]

\* One pass through the body of the while loop of scrape_read_books /
\* scrape_currently_reading, for page number `page`:
\*   fetch  "ok" or "fail": session.get + raise_for_status
\*   soup   the parsed page when the fetch succeeds
\*   dump   the write of the debug file (page 1 only): "ok", "fail_open"
\*          (open() raises, no file) or "fail_write" (write() raises, the
\*          file is left as far as it was written)
\* The result: how the pass leaves the loop ("" when it goes on to the next
\* page), the records to append, whether the debug file was written, and
\* what was seen of the page.
LoopBody(shelf, page, fetch, soup, dump) ==
  LET located == LocateEntries(soup)
      page_books == ExtractEntries(located.entries, shelf)
      seen == [fetched |-> fetch, located |-> TRUE, next_page |-> soup.next_page,
               n_entries |-> Len(located.entries),
               n_books |-> Len(page_books)]
  IN  IF fetch = "fail"
      THEN \* except requests.RequestException: break
           [exit |-> "transport", page_books |-> <<>>, dumped |-> FALSE,
            seen |-> NotLocated(fetch)]
      ELSE IF page = 1 /\ dump # "ok"
      THEN \* open() or write() raises OSError, which no except clause
           \* catches; a failed write leaves the file it was writing
           [exit |-> "crash", page_books |-> <<>>,
            dumped |-> dump = "fail_write", seen |-> NotLocated(fetch)]
      ELSE IF located.entries = <<>>
      THEN [exit |-> "no_entries", page_books |-> <<>>, dumped |-> page = 1,
            seen |-> seen]
      ELSE IF page_books = <<>>
      THEN [exit |-> "no_records", page_books |-> <<>>, dumped |-> page = 1,
            seen |-> seen]
      ELSE IF ~soup.next_page
      THEN [exit |-> "no_next", page_books |-> page_books, dumped |-> page = 1,
            seen |-> seen]
      ELSE [exit |-> "", page_books |-> page_books, dumped |-> page = 1,
            seen |-> seen]

\* What is known of a shelf before any page of it was requested.
NothingSeen == NotLocated("none")

\* ------------------------------------------------------------------- inputs

LinkCell(text, href) == [td |-> TRUE, a |-> TRUE, text |-> text, href |-> href]

NoLinkCell == [td |-> TRUE, a |-> FALSE, text |-> <<>>, href |-> <<>>]

NoCell == [td |-> FALSE, a |-> FALSE, text |-> <<>>, href |-> <<>>]

ValueCell(text) == [td |-> TRUE, value |-> TRUE, text |-> text]

NoValueCell == [td |-> FALSE, value |-> FALSE, text |-> <<>>]

StarCell(stars) == [td |-> TRUE, value |-> TRUE, stars |-> stars]

NoStarCell == [td |-> FALSE, value |-> FALSE, stars |-> <<>>]

BookHref == BookShowPath \o <<"1">>

AuthorHref == <<"/","a","u","t","h","o","r","/","2">>

BadHref == <<"/", "/", "[">>

\* An element with nothing in it that the scraper looks for.
BareElement(tag, classes) ==
  [tag |-> tag, classes |-> classes, other_link |-> FALSE,
   title |-> NoCell, author |-> NoCell, isbn |-> NoValueCell,
   date_pub |-> NoValueCell, rating |-> NoStarCell,
   avg_rating |-> NoValueCell, num_pages |-> NoValueCell]

\* A full shelf row as the site renders it.
RowA ==
  [BareElement("tr", {"bookalike", "review"}) EXCEPT
     !.title = LinkCell(<<" ", "A", " ">>, BookHref),
     !.author = LinkCell(<<"X">>, AuthorHref),
     !.isbn = ValueCell(<<"9", "7">>),
     !.date_pub = ValueCell(<<"M", " ", "1", "9", "2", "0">>),
     !.rating = StarCell(<<TRUE, TRUE, TRUE, FALSE, FALSE>>),
     !.avg_rating = ValueCell(<<"4", ".", "2", "0">>),
     !.num_pages = ValueCell(<<"1", "8", " ", "p">>)]

\* A row of the plain table layout: no marker class, title only.
RowB ==
  [BareElement("tr", {}) EXCEPT
     !.title = LinkCell(<<"B">>, BookHref),
     !.isbn = ValueCell(NoneText),
     !.date_pub = ValueCell(<<"U">>),
     !.rating = StarCell(<<FALSE, FALSE, FALSE, FALSE, FALSE>>)]

\* A marked row whose title cell holds no link.
RowNoTitle ==
  [BareElement("tr", {"bookalike"}) EXCEPT
     !.title = NoLinkCell, !.author = LinkCell(<<"Y">>, AuthorHref),
     !.other_link = TRUE]

\* A marked row whose title link makes urljoin raise.
RowBad ==
  [BareElement("tr", {"bookalike"}) EXCEPT !.title = LinkCell(<<"C">>, BadHref)]

\* A page count of one digit more than int() converts, with its unit.
LongDigits == [i \in 1..(MaxStrDigits + 1) |-> "1"]

LongPagesText == LongDigits \o <<" ", "p">>

\* A marked row whose page count makes int() raise.
RowLongPages ==
  [BareElement("tr", {"bookalike"}) EXCEPT
     !.title = LinkCell(<<"T">>, BookHref),
     !.num_pages = ValueCell(LongPagesText)]

\* A div of the div-based layout.
DivD ==
  [BareElement("div", {"item"}) EXCEPT !.title = LinkCell(<<"D">>, BookHref)]

Soup(elems, next_page) == [elems |-> elems, next_page |-> next_page]

\* The page served for every page number above VariedPages.
FillerPage == Soup(<<RowA>>, TRUE)

\* The pages a shelf request is answered with in the run-level specification.
MainPages ==
  { FillerPage,
    Soup(<<RowA>>, FALSE),
    Soup(<<RowBad, RowNoTitle, RowA>>, TRUE),
    Soup(<<RowNoTitle, RowBad>>, TRUE),
    Soup(<<RowB, DivD>>, FALSE),
    Soup(<<DivD>>, FALSE),
    Soup(<<>>, TRUE) }

PagesAt(page) == IF page <= VariedPages THEN MainPages ELSE {FillerPage}

FetchOutcomesAt(page) == IF page <= VariedPages THEN {"ok", "fail"} ELSE {"ok"}

DumpOutcomesAt(page) ==
  IF page = 1 THEN {"ok", "fail_open", "fail_write"} ELSE {"ok"}

\* -------------------------------------------------------------------- state

VARIABLES
  argc,          \* len(sys.argv)
  pc,            \* where main() stands
  exit_code,     \* the process exit status; -1 while it runs
  profile_info,  \* main's profile_info
  page,          \* page[shelf]: the loop's page variable
  books,         \* books[shelf]: the loop's books list
  stop,          \* stop[shelf]: how the loop was left; "" before that
  seen,          \* seen[shelf]: what the last pass saw of its page
  debug_file,    \* debug_file[shelf]: the debug dump exists
  requests,      \* the shelf page requests sent, in order: <<shelf, page>>
  out,           \* the console lines that matter, in order
  csv_file,      \* the export file
  csv_io,        \* the filesystem outcome the export met
  fn_pc,         \* function-level specifications: "off", "in" or "out"
  fn_in,         \* ... the input drawn
  fn_out         \* ... the result

vars ==
  <<argc, pc, exit_code, profile_info, page, books, stop, seen, debug_file,
    requests, out, csv_file, csv_io, fn_pc, fn_in, fn_out>>

run_vars ==
  <<argc, pc, exit_code, profile_info, page, books, stop, seen, debug_file,
    requests, out, csv_file, csv_io>>

\* The state of a run before main() is entered.
NotStarted ==
  /\ pc = "main"
  /\ exit_code = -1
  /\ profile_info = "unset"
  /\ page = [s \in Shelves |-> 1]
  /\ books = [s \in Shelves |-> <<>>]
  /\ stop = [s \in Shelves |-> ""]
  /\ seen = [s \in Shelves |-> NothingSeen]
  /\ debug_file = [s \in Shelves |-> FALSE]
  /\ requests = <<>>
  /\ out = <<>>
  /\ csv_file = NoFile
  /\ csv_io = IoNone

FnOff == fn_pc = "off" /\ fn_in = 0 /\ fn_out = 0

\* ---------------------------------------------------------------- the run

Init == argc \in {1, 2, 3} /\ NotStarted /\ FnOff

\* main(): the argument check.
CheckArgs ==
  /\ pc = "main"
  /\ IF argc # 2
     THEN pc' = "exit" /\ exit_code' = 1 /\ out' = Append(out, "usage")
     ELSE pc' = "profile" /\ exit_code' = exit_code /\ out' = out
  /\ UNCHANGED <<argc, profile_info, page, books, stop, seen, debug_file,
                 requests, csv_file, csv_io, fn_pc, fn_in, fn_out>>

\* scrape_profile under a fetch outcome; info: the fields found on the page.
ScrapeProfile(fetch, info) ==
  IF fetch = "fail"
  THEN [info |-> {}, out |-> <<"error_profile">>, raised |-> FALSE]
  ELSE [info |-> info, out |-> <<>>, raised |-> FALSE]

\* main(): profile_info = scraper.scrape_profile(username), and its print.
Profile ==
  /\ pc = "profile"
  /\ \E fetch \in {"ok", "fail"}, info \in {{}, {"display_name"}} :
       \E r \in {ScrapeProfile(fetch, info)} :
           /\ profile_info' = r.info
           /\ IF r.raised
              THEN pc' = "crashed" /\ exit_code' = 1 /\ out' = out
              ELSE /\ pc' = "read"
                   /\ exit_code' = exit_code
                   /\ out' = out \o r.out
                             \o (IF r.info # {} THEN <<"profile">> ELSE <<>>)
  /\ UNCHANGED <<argc, page, books, stop, seen, debug_file, requests,
                 csv_file, csv_io, fn_pc, fn_in, fn_out>>

\* Where main() goes when the loop of a shelf is left.
AfterShelf(shelf) == IF shelf = "read" THEN "currently-reading" ELSE "report"

\* page <= max_pages, as the while statement tests it after a pass that goes
\* on: how the loop is left, "" when it is entered again.
LoopTest(shelf, next_page_no, exit) ==
  IF exit = "" /\ next_page_no > MaxPagesOf(shelf) THEN "cap" ELSE exit

\* One pass of the while loop of a shelf, with the loop test that follows it.
ScrapePage(shelf) ==
  /\ pc = shelf
  /\ page[shelf] <= MaxPagesOf(shelf)
  /\ \E fetch \in FetchOutcomesAt(page[shelf]),
        soup \in PagesAt(page[shelf]),
        dump \in DumpOutcomesAt(page[shelf]) :
       /\ fetch = "fail" => soup = FillerPage /\ dump = "ok"
       /\ \E r \in {LoopBody(shelf, page[shelf], fetch, soup, dump)} :
          \E np \in {IF r.exit = "" THEN page[shelf] + 1 ELSE page[shelf]} :
          \E how \in {LoopTest(shelf, np, r.exit)} :
              /\ requests' = Append(requests, <<shelf, page[shelf]>>)
              /\ books' = [books EXCEPT ![shelf] = @ \o r.page_books]
              /\ seen' = [seen EXCEPT ![shelf] = r.seen]
              /\ debug_file' = [debug_file EXCEPT ![shelf] = @ \/ r.dumped]
              /\ page' = [page EXCEPT ![shelf] = np]
              /\ stop' = [stop EXCEPT ![shelf] = how]
              /\ out' = IF how = "transport" THEN Append(out, "error_page") ELSE out
              /\ pc' = IF how = "" THEN pc
                       ELSE IF how = "crash" THEN "crashed"
                       ELSE AfterShelf(shelf)
              /\ exit_code' = IF how = "crash" THEN 1 ELSE exit_code
  /\ UNCHANGED <<argc, profile_info, csv_file, csv_io, fn_pc, fn_in, fn_out>>

ScrapeReadBooks == ScrapePage("read")

ScrapeCurrentlyReading == ScrapePage("currently-reading")

\* Faulty variant: the currently-reading records are put first.
AllBooksCurrentlyReadingFirst == books["currently-reading"] \o books["read"]

\* main(): all_books = read_books + currently_reading_books
all_books == books["read"] \o books["currently-reading"]

\* main(): the summary blocks printed before the export, one per non-empty
\* shelf.
ShelfSummaries(read_books, currently_reading_books) ==
  (IF read_books # <<>> THEN <<"read_summary">> ELSE <<>>)
    \o (IF currently_reading_books # <<>>
        THEN <<"currently_reading_summary">> ELSE <<>>)

\* main(): the per-shelf summaries, or the notice that nothing was found.
Report ==
  /\ pc = "report"
  /\ IF all_books # <<>>
     THEN /\ out' = out \o ShelfSummaries(books["read"], books["currently-reading"])
          /\ pc' = "save"
          /\ exit_code' = exit_code
     ELSE /\ out' = Append(out, "no_books_found")
          /\ pc' = "exit"
          /\ exit_code' = 0
  /\ UNCHANGED <<argc, profile_info, page, books, stop, seen, debug_file,
                 requests, csv_file, csv_io, fn_pc, fn_in, fn_out>>

\* The filesystem outcomes of the export in the run-level specification.
MainIoOutcomes == {IoOk, IoFail(-1), IoFail(Utf8Size(CsvLine(HeaderRow)) + 7)}

\* main(): scraper.save_to_csv(all_books, filename)
Save ==
  /\ pc = "save"
  /\ \E io \in MainIoOutcomes :
       \E r \in {SaveToCsv(all_books, io)} :
           /\ csv_file' = r.file
           /\ csv_io' = io
           /\ IF r.raised
              THEN pc' = "crashed" /\ exit_code' = 1 /\ out' = out
              ELSE pc' = "combined" /\ exit_code' = exit_code
                   /\ out' = Append(out, r.out)
  /\ UNCHANGED <<argc, profile_info, page, books, stop, seen, debug_file,
                 requests, fn_pc, fn_in, fn_out>>

\* main(): the combined summary and the preview, then the end of main().
Combined ==
  /\ pc = "combined"
  /\ out' = Append(out, "combined_summary")
  /\ pc' = "exit"
  /\ exit_code' = 0
  /\ UNCHANGED <<argc, profile_info, page, books, stop, seen, debug_file,
                 requests, csv_file, csv_io, fn_pc, fn_in, fn_out>>

Next ==
  \/ CheckArgs
  \/ Profile
  \/ ScrapeReadBooks
  \/ ScrapeCurrentlyReading
  \/ Report
  \/ Save
  \/ Combined

Spec == Init /\ [][Next]_vars

\* ------------------------------------------- function-level specifications

\* The state of the run while a function-level specification runs.
RunIdle == argc = 2 /\ NotStarted

\* The rows of the pages of SpecPage: every way a row meets the locator
\* (marked row, plain row, div; with and without a book link) and the
\* extractor (title, no title link, blank title, raising href, raising page
\* count).
PageRows ==
  { [BareElement("tr", {"bookalike"}) EXCEPT !.title = LinkCell(<<"A">>, BookHref)],
    RowLongPages,
    [BareElement("tr", {"bookalike"}) EXCEPT
       !.title = NoLinkCell, !.author = LinkCell(<<"Y">>, AuthorHref)],
    [BareElement("tr", {"bookalike"}) EXCEPT !.title = LinkCell(<<"C">>, BadHref)],
    [BareElement("tr", {"bookalike"}) EXCEPT
       !.title = LinkCell(<<" ", "\n">>, BookHref)],
    [BareElement("tr", {}) EXCEPT
       !.title = LinkCell(<<"\n", "B", "\t">>, BookHref)],
    [BareElement("tr", {}) EXCEPT !.other_link = TRUE],
    [BareElement("tr", {}) EXCEPT
       !.title = LinkCell(<<"C">>, BadHref), !.other_link = TRUE],
    BareElement("tr", {}),
    [BareElement("div", {"item"}) EXCEPT !.title = LinkCell(<<"D">>, BookHref)],
    [BareElement("div", {"left", "entries"}) EXCEPT !.other_link = TRUE],
    [BareElement("div", {"left"}) EXCEPT !.title = LinkCell(<<"E">>, BookHref)] }

RECURSIVE SeqsUpTo(_, _)
SeqsUpTo(S, n) ==
  IF n = 0 THEN {<<>>}
  ELSE LET shorter == SeqsUpTo(S, n - 1)
       IN  shorter \cup {Append(q, x) : q \in shorter, x \in S}

PageInputs ==
  {[shelf |-> sh, soup |-> Soup(elems, FALSE)] :
     sh \in {"read"}, elems \in SeqsUpTo(PageRows, MaxRows)}

InitPage ==
  /\ RunIdle
  /\ fn_pc = "in"
  /\ fn_in \in PageInputs
  /\ fn_out = 0

\* The locator applied to the page.
LocatePage ==
  /\ fn_pc = "in"
  /\ fn_pc' = "located"
  /\ fn_out' = [located |-> LocateEntries(fn_in.soup)]
  /\ UNCHANGED <<run_vars, fn_in>>

\* The extraction loop applied to the candidates: each row's result, and the
\* page's records.
ExtractPage ==
  /\ fn_pc = "located"
  /\ fn_pc' = "out"
  /\ fn_out' =
       [located |-> fn_out.located,
        results |-> [i \in 1..Len(fn_out.located.entries) |->
                       ExtractBookInfo(fn_out.located.entries[i])],
        page_books |-> ExtractEntries(fn_out.located.entries, fn_in.shelf)]
  /\ UNCHANGED <<run_vars, fn_in>>

NextPage == LocatePage \/ ExtractPage

SpecPage == InitPage /\ [][NextPage]_vars

\* The rating cells of the rows of SpecRow.
StarCells ==
  {NoStarCell, [td |-> TRUE, value |-> FALSE, stars |-> <<>>]}
    \cup {StarCell(st) : st \in SeqsUpTo(BOOLEAN, MaxStars)}

\* Average ratings float() reads in other ways than digits around a point:
\* more digits than a double holds, a value repr writes with an exponent,
\* and a sign, an underscore and an exponent after a no-break space.
RatingTexts ==
  {<<"4", ".", "1", "2", "3", "4", "5", "6", "7", "8", "9", "0", "1", "2",
     "3", "4", "5", "6", "7", "8">>,
   <<"0", ".", "0", "0", "0", "0", "1">>,
   <<"U+00A0", "-", "1", "_", "0", "e", "5">>}

RowInputs ==
  {[RowA EXCEPT !.title = t, !.rating = r, !.isbn = i, !.avg_rating = a,
                !.num_pages = n] :
     t \in {LinkCell(<<"A">>, BookHref), NoLinkCell},
     r \in StarCells,
     i \in {ValueCell(NoneText), ValueCell(<<"9", "7">>)},
     a \in {ValueCell(<<"4", ".", "2", "0">>), ValueCell(<<"x">>)},
     n \in {ValueCell(<<"1", "8", " ", "p">>), ValueCell(<<"p">>), NoValueCell}}
    \cup {[RowA EXCEPT !.avg_rating = ValueCell(a)] : a \in RatingTexts}
    \cup {[RowA EXCEPT !.num_pages = ValueCell(n)] :
            n \in {LongPagesText, <<"p", "\n">> \o LongDigits,
                   <<"U+0663", "U+0660", "0", " ", "p">>}}

InitRow ==
  /\ RunIdle
  /\ fn_pc = "in"
  /\ fn_in \in RowInputs
  /\ fn_out = 0

\* _extract_book_info applied to the row.
ExtractRow ==
  /\ fn_pc = "in"
  /\ fn_pc' = "out"
  /\ fn_out' = ExtractBookInfo(fn_in)
  /\ UNCHANGED <<run_vars, fn_in>>

SpecRow == InitRow /\ [][ExtractRow]_vars

\* Publish-date texts: the site's usual renderings, texts with digits of
\* another script and with whitespace other than the blank, and every text
\* of up to MaxDateLen characters over two digits, a letter and a blank.
DateAlphabet == {"1", "2", "a", " "}

DateExamples ==
  {<<"M", "a", "r", " ", "2", "6", ",", " ", "1", "9", "2", "0">>,
   <<"U", "n", "k", "n", "o", "w", "n">>,
   NoneText,
   <<" ">> \o NoneText \o <<" ">>,
   NoneText \o <<"1", "9", "2", "0">>,
   <<"1", "9", "2", "0", "-", "2", "0", "0", "1">>,
   <<"1", "2", "3", " ", "2", "0", "0", "1", "9">>,
   <<"a", "U+0663", "U+0663", "U+0663", "U+0663">>,
   <<"\n", " ", "1", "9", "2", "0", "\t">>,
   <<"U+00A0">> \o NoneText \o <<"\n">>,
   <<"\n", "U+00A0">>}

DateTexts == DateExamples \cup SeqsUpTo(DateAlphabet, MaxDateLen)

DateCells ==
  {NoValueCell, [td |-> TRUE, value |-> FALSE, text |-> <<>>]}
    \cup {ValueCell(text) : text \in DateTexts}

DateInputs ==
  {[RowA EXCEPT !.title = t, !.date_pub = d] :
     t \in {LinkCell(<<"A">>, BookHref), NoLinkCell}, d \in DateCells}

InitDate ==
  /\ RunIdle
  /\ fn_pc = "in"
  /\ fn_in \in DateInputs
  /\ fn_out = 0

\* _extract_book_info applied to the row.
ExtractDate ==
  /\ fn_pc = "in"
  /\ fn_pc' = "out"
  /\ fn_out' = ExtractBookInfo(fn_in)
  /\ UNCHANGED <<run_vars, fn_in>>

SpecDate == InitDate /\ [][ExtractDate]_vars

\* The records handed to save_to_csv in SpecCsv: what the extraction loop
\* makes of a full row, a sparse row and a div, on either shelf.
CsvBooks ==
  {ExtractEntries(<<row>>, sh)[1] : row \in {RowA, RowB, DivD}, sh \in Shelves}

CsvInputs ==
  UNION {{[books |-> bs, io |-> io] : io \in IoOutcomes(bs)} :
           bs \in SeqsUpTo(CsvBooks, MaxBooks)}

InitCsv ==
  /\ RunIdle
  /\ fn_pc = "in"
  /\ fn_in \in CsvInputs
  /\ fn_out = 0

\* save_to_csv applied to the records.
SaveCsv ==
  /\ fn_pc = "in"
  /\ fn_pc' = "out"
  /\ fn_out' = SaveToCsv(fn_in.books, fn_in.io)
  /\ UNCHANGED <<run_vars, fn_in>>

SpecCsv == InitCsv /\ [][SaveCsv]_vars

\* ------------------------------------------------------ claims about the run

\* The number of page requests sent for a shelf.
Requested(shelf) ==
  Cardinality({i \in 1..Len(requests) : requests[i][1] = shelf})

\* The positions of a console line.
LinesAt(line) == {i \in 1..Len(out) : out[i] = line}

\* C1: once a page of a shelf was fetched and yielded no record, no further
\* page of that shelf is requested, whether or not the page had a next link.
C1_NoFetchAfterEmptyPage ==
  [][\A s \in Shelves :
       (seen[s].fetched = "ok" /\ seen[s].located /\ seen[s].n_books = 0)
         => Requested(s)' = Requested(s)]_vars

\* C1 witness: a run is over in which a page with candidate rows and a next
\* link yielded no record.
C1_Witness ==
  /\ pc = "exit"
  /\ \E s \in Shelves :
       /\ seen[s].fetched = "ok" /\ seen[s].located
       /\ seen[s].n_entries > 0 /\ seen[s].n_books = 0 /\ seen[s].next_page

\* C2: a step in which a page request fails leaves the shelf's loop with the
\* records gathered so far, and main goes on to what follows the shelf (the
\* first page of currently-reading after read); a step in which the profile
\* request fails leaves an empty profile and goes on to the read shelf.
C2_TransportFailureEndsShelfOnly ==
  [][/\ \A s \in Shelves :
          (Requested(s)' > Requested(s) /\ seen'[s].fetched = "fail")
            => /\ books'[s] = books[s]
               /\ stop'[s] = "transport"
               /\ pc' = AfterShelf(s)
               /\ exit_code' = -1
               /\ s = "read" =>
                    /\ page'["currently-reading"] = 1
                    /\ stop'["currently-reading"] = ""
                    /\ Requested("currently-reading")' = 0
     /\ (pc = "profile" /\ LinesAt("error_profile")' # {})
            => /\ profile_info' = {}
               /\ pc' = "read"
               /\ exit_code' = -1
               /\ page' = page /\ stop' = stop]_vars

\* C2 witness: the profile request failed, the read shelf failed on a later
\* page with records in hand, and the currently-reading shelf was requested.
C2_Witness ==
  /\ LinesAt("error_profile") # {}
  /\ stop["read"] = "transport"
  /\ books["read"] # <<>>
  /\ Requested("currently-reading") > 0
  /\ pc = "exit"

\* C3 (as claimed): with one username argument the run never ends in an
\* unhandled failure, and only a wrong argument count exits non-zero.
C3_NoUnhandledFailure ==
  /\ argc = 2 => pc # "crashed" /\ exit_code \in {-1, 0}
  /\ (pc = "exit" /\ argc # 2) => exit_code = 1

\* One of the five ways the claim gives for a loop to end holds of the
\* shelf's last pass.
EndCondition(s) ==
  \/ seen[s].fetched = "fail"
  \/ seen[s].located /\ seen[s].n_entries = 0
  \/ seen[s].located /\ seen[s].n_books = 0
  \/ seen[s].located /\ ~seen[s].next_page
  \/ page[s] > MaxPagesOf(s)

\* C4 (as claimed): a shelf never sends more requests than max_pages, and its
\* loop has been left exactly when one of the five end conditions holds.
C4_LoopEndsOnlyByItsConditions ==
  \A s \in Shelves :
    /\ Requested(s) <= MaxPagesOf(s)
    /\ Requested(s) > 0 => (stop[s] # "" <=> EndCondition(s))

\* C4, the part the code keeps: the page cap, and the end conditions whenever
\* the loop was not left by an uncaught exception.
C4_HoldsUnlessCrashed ==
  \A s \in Shelves :
    /\ Requested(s) <= MaxPagesOf(s)
    /\ (Requested(s) > 0 /\ stop[s] # "crash") =>
         (stop[s] # "" <=> EndCondition(s))

ExportFailed == csv_io # IoNone /\ ~csv_io.ok

SummaryLines == {"read_summary", "currently_reading_summary", "combined_summary"}

\* C9 (as claimed): when the CSV write fails it is logged, the process exits
\* normally, and no summary is printed after the export.
C9_NoSummaryAfterExport ==
  ExportFailed =>
    /\ pc \in {"combined", "exit"}
    /\ LinesAt("error_csv") # {}
    /\ pc = "exit" => exit_code = 0
    /\ \A i \in LinesAt("error_csv"), j \in 1..Len(out) :
         out[j] \in SummaryLines => j < i

\* C9 (amended): when the CSV write fails it is logged and the process exits
\* normally; the summary of every non-empty shelf was printed before the
\* export, and the combined summary is printed after it.
C9_ShelfSummariesBeforeExport ==
  ExportFailed =>
    /\ pc \in {"combined", "exit"}
    /\ Cardinality(LinesAt("error_csv")) = 1
    /\ pc = "exit" => exit_code = 0 /\ out[Len(out)] = "combined_summary"
    /\ \A s \in Shelves :
         books[s] # <<>> <=>
           \E j \in 1..Len(out) :
             /\ out[j] = (IF s = "read" THEN "read_summary"
                          ELSE "currently_reading_summary")
             /\ \A i \in LinesAt("error_csv") : j < i
    /\ \A i \in LinesAt("error_csv"), j \in LinesAt("combined_summary") : i < j

\* C9 witness: the export failed in a run with both shelves non-empty, and
\* the process has exited.
C9_Witness ==
  /\ ExportFailed
  /\ pc = "exit"
  /\ books["read"] # <<>>
  /\ books["currently-reading"] # <<>>

\* ------------------------------------------------ claims about the functions

\* C5: the locator stops at the first method that finds something: marked
\* rows alone when there are any (method 2 not run); else the rows with a
\* book link alone when there are any (method 3 not run); else the divs.
C5_LocatorFallbackOrder ==
  fn_pc \in {"located", "out"} =>
    LET soup == fn_in.soup
        got == fn_out.located
    IN  /\ Strategy1(soup) # <<>> =>
             got.entries = Strategy1(soup) /\ got.ran = {1}
        /\ (Strategy1(soup) = <<>> /\ Strategy2(soup) # <<>>) =>
             got.entries = Strategy2(soup) /\ got.ran = {1, 2}
        /\ (Strategy1(soup) = <<>> /\ Strategy2(soup) = <<>>) =>
             got.entries = Strategy3(soup) /\ got.ran = {1, 2, 3}

\* C5 witness: no marked row, two rows with a book link and a div that
\* method 3 would have taken.
C5_Witness ==
  /\ fn_pc = "located"
  /\ Strategy1(fn_in.soup) = <<>>
  /\ Len(Strategy2(fn_in.soup)) = 2
  /\ Strategy3(fn_in.soup) # <<>>
  /\ Len(fn_out.located.entries) = 2

\* The row has a link in a title cell.
HasTitleLink(e) == e.title.td /\ e.title.a

\* The row has a title link whose text is not blank.
HasTitle(e) ==
  HasTitleLink(e)
    /\ \E i \in 1..Len(e.title.text) : e.title.text[i] \notin Whitespace

\* C7: a row without a title link, or with a blank one, yields no record, and
\* every record of the page's list has a non-empty title.
C7_TitleIsMandatory ==
  fn_pc = "out" =>
    /\ \A i \in 1..Len(fn_out.located.entries) :
         ~HasTitle(fn_out.located.entries[i]) => fn_out.results[i] = None
    /\ \A k \in 1..Len(fn_out.page_books) :
         /\ "title" \in DOMAIN fn_out.page_books[k]
         /\ fn_out.page_books[k].title # <<>>
    /\ Len(fn_out.page_books) <=
         Cardinality({i \in 1..Len(fn_out.located.entries) :
                        HasTitle(fn_out.located.entries[i])})

\* C7 witness: a page with a row without title link (but with an author), a
\* row with a blank title and a row with a title, of which one record is kept.
C7_Witness ==
  /\ fn_pc = "out"
  /\ Len(fn_out.page_books) = 1
  /\ \E i, j \in 1..Len(fn_out.located.entries) :
       /\ ~HasTitleLink(fn_out.located.entries[i])
       /\ fn_out.located.entries[i].author.a
       /\ HasTitleLink(fn_out.located.entries[j])
       /\ ~HasTitle(fn_out.located.entries[j])

\* The candidate rows that yield a record: a title, and no raising href.
Yielding(entries) ==
  {i \in 1..Len(entries) : HasTitle(entries[i]) /\ ~ExtractRaises(entries[i])}

\* C8: a row whose extraction raises yields None and nothing else changes:
\* the page's records are those of the rows that yield one, every one of
\* them, in row order, each tagged with the shelf.
C8_RowFailureIsLocal ==
  fn_pc = "out" =>
    LET entries == fn_out.located.entries
        kept == Yielding(entries)
    IN  /\ \A i \in 1..Len(entries) :
             ExtractRaises(entries[i]) => fn_out.results[i] = None
        /\ Len(fn_out.page_books) = Cardinality(kept)
        /\ \A i \in kept :
             LET k == Cardinality({j \in kept : j <= i})
             IN  /\ fn_out.page_books[k].title = Strip(entries[i].title.text)
                 /\ fn_out.page_books[k].shelf = ShelfName(fn_in.shelf)
                 /\ [f \in DOMAIN fn_out.results[i] |-> fn_out.page_books[k][f]]
                      = fn_out.results[i]

\* C8 witness: a raising row stands before and after rows that yield records,
\* and both records are on the page's list.
C8_Witness ==
  /\ fn_pc = "out"
  /\ Len(fn_out.located.entries) = 3
  /\ ~ExtractRaises(fn_out.located.entries[1])
  /\ ExtractRaises(fn_out.located.entries[2])
  /\ ~ExtractRaises(fn_out.located.entries[3])
  /\ Len(fn_out.page_books) = 2

\* The filled stars of the row's rating cell, counted one by one.
RECURSIVE CountFilled(_)
CountFilled(stars) ==
  IF stars = <<>> THEN 0
  ELSE (IF Head(stars) THEN 1 ELSE 0) + CountFilled(Tail(stars))

\* C10 (as claimed): the record has a rating exactly when the cell has a
\* filled star, and the rating is their number, in 1..5.
C10_RatingIsFilledStarsUpTo5 ==
  (fn_pc = "out" /\ fn_out # None) =>
    /\ "rating" \in DOMAIN fn_out <=> CountFilled(fn_in.rating.stars) > 0
    /\ "rating" \in DOMAIN fn_out =>
         fn_out.rating = CountFilled(fn_in.rating.stars) /\ fn_out.rating \in 1..5

\* C10 (amended): the record has a rating exactly when the cell has a filled
\* star, and the rating is their number: at least 1, at most the number of
\* star elements in the cell.
C10_RatingIsFilledStars ==
  (fn_pc = "out" /\ fn_out # None) =>
    /\ "rating" \in DOMAIN fn_out <=> CountFilled(fn_in.rating.stars) > 0
    /\ "rating" \in DOMAIN fn_out =>
         /\ fn_out.rating = CountFilled(fn_in.rating.stars)
         /\ fn_out.rating \in 1..Len(fn_in.rating.stars)

\* C10 witness: three filled stars out of five give the rating 3.
C10_Witness ==
  /\ fn_pc = "out"
  /\ fn_in.rating.stars = <<TRUE, TRUE, TRUE, FALSE, FALSE>>
  /\ fn_out # None
  /\ "rating" \in DOMAIN fn_out
  /\ fn_out.rating = 3

\* The columns of the export, as the claim lists them.
ClaimedColumns ==
  << <<"title", <<"t","i","t","l","e">> >>,
     <<"author", <<"a","u","t","h","o","r">> >>,
     <<"publish_date", <<"p","u","b","l","i","s","h","_","d","a","t","e">> >>,
     <<"isbn", <<"i","s","b","n">> >>,
     <<"rating", <<"r","a","t","i","n","g">> >>,
     <<"avg_rating", <<"a","v","g","_","r","a","t","i","n","g">> >>,
     <<"pages", <<"p","a","g","e","s">> >>,
     <<"book_url", <<"b","o","o","k","_","u","r","l">> >>,
     <<"author_url", <<"a","u","t","h","o","r","_","u","r","l">> >>,
     <<"shelf", <<"s","h","e","l","f">> >> >>

\* C6: with nothing to save no file is written and the notice is printed;
\* when n >= 1 records are written, the file holds the header and then one
\* row per record, in order, the ten columns in the claimed order, the text
\* of the field where the record has it and the empty string where not.
C6_CsvShape ==
  fn_pc = "out" =>
    /\ fn_in.books = <<>> =>
         ~fn_out.file.exists /\ fn_out.out = "no_books_to_save"
    /\ (fn_in.books # <<>> /\ fn_in.io.ok) =>
         /\ fn_out.file.exists
         /\ fn_out.out = "saved"
         /\ Len(fn_out.file.rows) = Len(fn_in.books) + 1
         /\ \A r \in 1..Len(fn_out.file.rows) : Len(fn_out.file.rows[r]) = 10
         /\ \A j \in 1..10 : fn_out.file.rows[1][j] = ClaimedColumns[j][2]
         /\ \A i \in 1..Len(fn_in.books), j \in 1..10 :
              LET field == ClaimedColumns[j][1]
                  book == fn_in.books[i]
              IN  fn_out.file.rows[i + 1][j] =
                    IF field \in DOMAIN book
                    THEN CellText(field, book[field]) ELSE <<>>

\* C6 witness: two records were written, the first with every field but the
\* second without author, rating and pages.
C6_Witness ==
  /\ fn_pc = "out"
  /\ fn_in.io.ok
  /\ Len(fn_in.books) = 2
  /\ DOMAIN fn_in.books[1] = {ClaimedColumns[j][1] : j \in 1..10}
  /\ {"author", "rating", "pages"} \cap DOMAIN fn_in.books[2] = {}
  /\ Len(fn_out.file.rows) = 3
  /\ fn_out.file.rows[2][5] = <<"3">>
  /\ fn_out.file.rows[2][6] = <<"4", ".", "2">>
  /\ fn_out.file.rows[3][2] = <<>>

\* The trimmed text of the value sub-element of the date_pub cell.
DateText == Strip(fn_in.date_pub.text)

\* Position i starts four consecutive digits of s.
FourDigitsAt(s, i) ==
  /\ i + 3 <= Len(s)
  /\ \A k \in i..(i + 3) : s[k] \in Digits

HasFourDigits(s) == \E i \in 1..Len(s) : FourDigitsAt(s, i)

\* C11: for every publish-date value text of a row that yields a record:
\* an empty text or the text "None" leaves the record without publish_date;
\* a text holding four consecutive digits gives exactly the first such four
\* digits as publish_date; any other text is kept, trimmed, as publish_date.
C11_PublishDateIsYearOrText ==
  (fn_pc = "out" /\ fn_in \in DateInputs /\ fn_out # None
     /\ fn_in.date_pub.td /\ fn_in.date_pub.value) =>
    IF DateText = <<>> \/ DateText = NoneText
    THEN "publish_date" \notin DOMAIN fn_out
    ELSE /\ "publish_date" \in DOMAIN fn_out
         /\ IF HasFourDigits(DateText)
            THEN \E i \in 1..Len(DateText) :
                   /\ FourDigitsAt(DateText, i)
                   /\ \A j \in 1..(i - 1) : ~FourDigitsAt(DateText, j)
                   /\ fn_out.publish_date = SubSeq(DateText, i, i + 3)
            ELSE fn_out.publish_date = DateText

\* "Mar 26, 1920" has been extracted as "1920".
C11_Witness ==
  /\ fn_pc = "out"
  /\ fn_in \in DateInputs
  /\ fn_in.date_pub.text
       = <<"M", "a", "r", " ", "2", "6", ",", " ", "1", "9", "2", "0">>
  /\ fn_out # None
  /\ Get(fn_out, "publish_date", <<>>) = <<"1", "9", "2", "0">>

\* The pages requested for a shelf, in the order of the requests.
RECURSIVE PagesRequested(_, _)
PagesRequested(log, shelf) ==
  IF log = <<>> THEN <<>>
  ELSE (IF Head(log)[1] = shelf THEN <<Head(log)[2]>> ELSE <<>>)
         \o PagesRequested(Tail(log), shelf)

\* The column of the shelf in the export file.
ShelfColumn == CHOOSE j \in 1..Len(fieldnames) : fieldnames[j] = "shelf"

\* The shelf the k-th exported record must carry: the read records first.
ShelfAt(k) ==
  IF k <= Len(books["read"]) THEN ShelfName("read")
  ELSE ShelfName("currently-reading")

\* C12: in one run the pages requested for a shelf are 1, 2, ..., k, each
\* once and in that order, so a failed page is not asked for again; every
\* request for the read shelf comes before every request for the
\* currently-reading shelf, which is asked for only once the read loop has
\* ended; every collected record carries the shelf of its loop, and the
\* records handed to the export, and the rows written, are the read records
\* followed by the currently-reading records.
C12_RequestAndExportOrder ==
  /\ \A s \in Shelves :
       LET pages == PagesRequested(requests, s)
       IN  /\ \A i \in 1..Len(pages) : pages[i] = i
           /\ \A k \in 1..Len(books[s]) : books[s][k].shelf = ShelfName(s)
  /\ \A i, j \in 1..Len(requests) :
       (requests[i][1] = "currently-reading" /\ requests[j][1] = "read")
         => j < i
  /\ Requested("currently-reading") > 0
       => stop["read"] \notin {"", "crash"}
  /\ Len(all_books) = Len(books["read"]) + Len(books["currently-reading"])
  /\ \A k \in 1..Len(all_books) : all_books[k].shelf = ShelfAt(k)
  /\ csv_file.exists =>
       /\ Len(csv_file.rows) <= Len(all_books) + 1
       /\ \A i \in 2..Len(csv_file.rows) :
            csv_file.rows[i][ShelfColumn] = ShelfAt(i - 1)

\* C12 witness: a run that asked for two read pages, the second of which
\* failed, then for two currently-reading pages, and exported records of both
\* shelves.
C12_Witness ==
  /\ pc = "exit"
  /\ PagesRequested(requests, "read") = <<1, 2>>
  /\ stop["read"] = "transport"
  /\ PagesRequested(requests, "currently-reading") = <<1, 2>>
  /\ books["read"] # <<>>
  /\ books["currently-reading"] # <<>>
  /\ csv_file.exists
  /\ Len(csv_file.rows) = Len(all_books) + 1

====
